---------------------------- MODULE Spec2Model ----------------------------
(***************************************************************************)
(* Model of calc.py: a resumable scan of the powers of two for values      *)
(* whose decimal form has none of the digits 1, 2, 4, 8.  The state is the *)
(* two files (checkpoint and results), the locals of main, the write       *)
(* buffers of the open file objects and the position of the process.       *)
(*                                                                         *)
(* File contents and strings are sequences of one-character strings.       *)
(* A Python number is a record [neg, mag, scale]: its value is             *)
(* (-1)^neg * mag / 10^scale, with mag a big-endian sequence of decimal    *)
(* digits without leading zeros.  An int has scale 0 and any number of     *)
(* digits (arbitrary precision); a float, which main only obtains from     *)
(* 2 ** n with n < 0, has scale > 0.                                       *)
(***************************************************************************)
EXTENDS Integers, Sequences, FiniteSets, TLC

(***************************************************************************)
(* Bounds of the model.                                                    *)
(***************************************************************************)
\* The driver loop is followed up to this exponent (the loop itself is unbounded).
MaxExp == 17
\* Largest initial checkpoint value.
MaxStart == 16
\* The runs that are killed and restarted start at MaxStart - StartWindow or later.
StartWindow == 3
\* The uninterrupted runs also start from the negative values down to -NegStarts.
NegStarts == 1
\* Number of times the process is killed from outside.
MaxCrashes == 3
\* The checkpoint round trip is tried on 0..MaxSmall and on the values
\* 2^64 .. 2^(64 + MaxBig) and their successors.
MaxSmall == 12
MaxBig == 2
\* Two instances of main are started on a checkpoint of MaxStart - TwoWindow or
\* later (MaxStart - TwoWindow = 8 is where the checkpoint text is about to grow
\* from one digit to two), and are followed for the exponents c0 .. c0 + TwoSpan.
TwoWindow == 8
TwoSpan == 1
\* The runs that are followed for their progress markers go up to this exponent.
MaxMark == 1001

(***************************************************************************)
(* Program constants.                                                      *)
(***************************************************************************)
\* main, line 7: the base of 2 ** int_current_position.
Base == 2
\* main, line 5: a progress marker every 1000 exponents.
ProgressInterval == 1000
\* main, line 9: digits = {"1", "2", "4", "8"}.
digits == {"1", "2", "4", "8"}

(***************************************************************************)
(* Characters, strings and decimal digits.                                 *)
(***************************************************************************)
DigitChars == <<"0", "1", "2", "3", "4", "5", "6", "7", "8", "9">>

DigitChar(d) == DigitChars[d + 1]

IsDigitChar(c) == \E d \in 0..9 : DigitChars[d + 1] = c

CharDigit(c) == CHOOSE d \in 0..9 : DigitChars[d + 1] = c

\* The characters str.strip() and int() treat as white space (those the model uses).
Whitespace == {" ", "\n"}

NL == "\n"

Front(s) == SubSeq(s, 1, Len(s) - 1)

Last(s) == s[Len(s)]

RECURSIVE StripLeft(_)
StripLeft(s) ==
    IF s # <<>> /\ Head(s) \in Whitespace THEN StripLeft(Tail(s)) ELSE s

RECURSIVE StripRight(_)
StripRight(s) ==
    IF s # <<>> /\ Last(s) \in Whitespace THEN StripRight(Front(s)) ELSE s

Strip(s) == StripRight(StripLeft(s))

RECURSIVE StripZeros(_)
StripZeros(m) ==
    IF Len(m) > 1 /\ Head(m) = 0 THEN StripZeros(Tail(m)) ELSE m

RECURSIVE Zeros(_)
Zeros(n) == IF n <= 0 THEN <<>> ELSE Append(Zeros(n - 1), "0")

(***************************************************************************)
(* Arbitrary-precision arithmetic on magnitudes: big-endian sequences of   *)
(* decimal digits, worked on from the least significant digit.             *)
(***************************************************************************)
RECURSIVE NatMag(_)
NatMag(n) == IF n < 10 THEN <<n>> ELSE Append(NatMag(n \div 10), n % 10)

\* m * b + carry on the Len(m) places of m, for a small factor b: the digits of
\* these places and what carries out of them.  The places are halved, and the
\* right half is worked first (the carry runs from right to left).
RECURSIVE MulPlaces(_, _, _)
MulPlaces(m, b, carry) ==
    IF m = <<>> THEN [digits |-> <<>>, carry |-> carry]
    ELSE IF Len(m) = 1
    THEN [digits |-> <<(m[1] * b + carry) % 10>>,
          carry |-> (m[1] * b + carry) \div 10]
    ELSE LET half == Len(m) \div 2
             low  == MulPlaces(SubSeq(m, half + 1, Len(m)), b, carry)
             both == <<low, MulPlaces(SubSeq(m, 1, half), b, low.carry)>>
         IN  [digits |-> both[2].digits \o both[1].digits, carry |-> both[2].carry]

\* m * b + carry, for a magnitude m and a small factor b.
MulAdd(m, b, carry) ==
    LET r == MulPlaces(m, b, carry)
    IN  IF r.carry = 0 THEN r.digits ELSE NatMag(r.carry) \o r.digits

MulMag(m, b) == StripZeros(MulAdd(m, b, 0))

\* The magnitudes first, first * b, ..., first * b ** n, each the one before
\* times b (the sequence is built by halves).
RECURSIVE PowersFrom(_, _, _)
PowersFrom(first, b, n) ==
    IF n = 0 THEN <<first>>
    ELSE LET half  == n \div 2
             below == PowersFrom(first, b, half)
         IN  below \o PowersFrom(MulMag(Last(below), b), b, n - half - 1)

\* The magnitudes b ** 0, b ** 1, ..., b ** n.
PowersUpTo(b, n) == PowersFrom(<<1>>, b, n)

\* m + 1.
RECURSIVE IncMag(_)
IncMag(m) ==
    IF m = <<>> THEN <<1>>
    ELSE IF Last(m) = 9 THEN Append(IncMag(Front(m)), 0)
    ELSE Append(Front(m), Last(m) + 1)

\* m - 1, for m > 0.
RECURSIVE DecMag(_)
DecMag(m) ==
    IF Last(m) = 0 THEN Append(DecMag(Front(m)), 9)
    ELSE Append(Front(m), Last(m) - 1)

\* The magnitude modulo a small modulus (Horner, most significant digit first).
RECURSIVE ModMag(_, _, _)
ModMag(m, k, acc) ==
    IF m = <<>> THEN acc ELSE ModMag(Tail(m), k, (acc * 10 + Head(m)) % k)

\* The value of a magnitude as a native integer (small magnitudes only).
RECURSIVE MagVal(_, _)
MagVal(m, acc) == IF m = <<>> THEN acc ELSE MagVal(Tail(m), acc * 10 + Head(m))

\* The characters of a magnitude, and the magnitude of a string of digits.
RECURSIVE MagStr(_)
MagStr(m) ==
    IF m = <<>> THEN <<>>
    ELSE IF Len(m) = 1 THEN <<DigitChar(m[1])>>
    ELSE MagStr(SubSeq(m, 1, Len(m) \div 2))
             \o MagStr(SubSeq(m, Len(m) \div 2 + 1, Len(m)))

RECURSIVE StrMag(_)
StrMag(s) == IF s = <<>> THEN <<>> ELSE <<CharDigit(Head(s))>> \o StrMag(Tail(s))

(***************************************************************************)
(* Python numbers.                                                         *)
(***************************************************************************)
PyInt(n) == [neg |-> n < 0, mag |-> NatMag(IF n < 0 THEN -n ELSE n), scale |-> 0]

\* The native value of a small Python int.
Val(v) == IF v.neg THEN -MagVal(v.mag, 0) ELSE MagVal(v.mag, 0)

\* v + 1 for a Python int v (main, line 12: int_current_position + 1).
AddOne(v) ==
    IF v.neg
    THEN LET m == StripZeros(DecMag(v.mag))
         IN  [neg |-> m # <<0>>, mag |-> m, scale |-> 0]
    ELSE [neg |-> FALSE, mag |-> IncMag(v.mag), scale |-> 0]

\* Faulty variant: the test is v == 0.
IsMultiple_OnlyZero(v, k) == v.mag = <<0>>

\* v % k == 0 for a Python int v (main, line 5); the sign does not matter.
IsMultiple(v, k) == ModMag(v.mag, k, 0) = 0

\* The powers of 2 the model needs, computed once: 2 ** 0 .. 2 ** (MaxMark + 1),
\* and the powers of 5 = 10 / 2 for the negative exponents.
PowersOfTwo == PowersUpTo(Base, MaxMark + 1)

PowersOfFive == PowersUpTo(10 \div Base, NegStarts + 1)

\* Faulty variant: the power is kept in a 16-bit word.
PowFixedWidth(v) ==
    IF v.neg
    THEN [neg |-> FALSE, mag |-> PowersOfFive[1 - Val(v)], scale |-> -Val(v)]
    ELSE [neg |-> FALSE, mag |-> NatMag((Base ^ Val(v)) % (2 ^ 16)), scale |-> 0]

\* 2 ** v (main, line 7), in arbitrary precision.  A negative exponent gives
\* the float 1 / 2 ** -v, which is exactly 5 ** -v / 10 ** -v.
Pow(v) ==
    IF v.neg
    THEN [neg |-> FALSE, mag |-> PowersOfFive[1 - Val(v)], scale |-> -Val(v)]
    ELSE [neg |-> FALSE, mag |-> PowersOfTwo[Val(v) + 1], scale |-> 0]

\* str(x) (main, line 8; append_if_answer_found, line 24; increment_in_file,
\* line 32).  A float below 1 prints as 0.<fraction> (positional notation, which
\* Python uses down to 1e-4).
str(x) ==
    IF x.scale = 0
    THEN (IF x.neg THEN <<"-">> ELSE <<>>) \o MagStr(x.mag)
    ELSE <<"0", ".">> \o Zeros(x.scale - Len(x.mag)) \o MagStr(x.mag)

\* int(s) (main, line 4): optional white space around an optional sign and at
\* least one decimal digit; anything else raises ValueError (ok = FALSE).
int(s) ==
    LET t      == Strip(s)
        signed == t # <<>> /\ Head(t) \in {"-", "+"}
        body   == IF signed THEN Tail(t) ELSE t
        ok     == body # <<>> /\ \A i \in 1..Len(body) : IsDigitChar(body[i])
        mag    == StripZeros(StrMag(body))
    IN  IF ok
        THEN [ok |-> TRUE,
              val |-> [neg |-> signed /\ Head(t) = "-" /\ mag # <<0>>,
                       mag |-> mag, scale |-> 0]]
        ELSE [ok |-> FALSE, val |-> PyInt(0)]

\* main, line 10: not any(char in digits for char in str_full_number).
NoForbiddenDigit(s) == ~ \E i \in 1..Len(s) : s[i] \in digits


(***************************************************************************)
(* State.                                                                  *)
(***************************************************************************)
VARIABLES
    in_exists,             \* the checkpoint file exists
    in_file,               \* contents of the checkpoint file
    out_exists,            \* the results file exists
    out_file,              \* contents of the results file
    pc,                    \* the statement the process executes next
    str_current_position,  \* main's locals
    int_current_position,
    int_full_number,
    str_full_number,
    num_to_write,          \* increment_in_file's parameter
    file_in,               \* unflushed text of increment_in_file's file object
    file_out,              \* unflushed text of append_if_answer_found's file object
    stdout,                \* what main has printed
    tested,                \* history: the exponents whose predicate was evaluated
    ckpt_log,              \* history: the texts increment_in_file has written
    start,                 \* history: the files when the first run started
    iter,                  \* history: the files when the current iteration started
    killed_exp,            \* history: <<n>> when the last kill hit the iteration of n
    run_iters,             \* history: iterations the running process has completed
    crashes,               \* history: number of kills so far
    killed_at,             \* history: the statement the kill came before, while killed
    ckpt_held,             \* history: the checkpoint file after each close of increment_in_file
    horizon,               \* the last exponent the model follows the loop to
    other                  \* the frame of a second instance of main, when there is one

files == <<in_exists, in_file, out_exists, out_file>>
locals == <<str_current_position, int_current_position, int_full_number,
            str_full_number, num_to_write>>
handles == <<file_in, file_out>>
history == <<tested, ckpt_log, start, iter, killed_exp, run_iters, crashes,
             killed_at, ckpt_held>>
scope == <<horizon, other>>
vars == <<files, pc, locals, handles, stdout, history, scope>>

Files == [in_exists |-> in_exists, in_file |-> in_file,
          out_exists |-> out_exists, out_file |-> out_file]

\* Checkpoint texts int() accepts: what increment_in_file leaves for the
\* exponents lo..hi, and the text of hi with the newline an editor or echo appends.
ValidCheckpoints(lo, hi) ==
    {str(PyInt(n)) : n \in lo..hi} \cup {str(PyInt(hi)) \o <<NL>>}

\* Checkpoint texts int() rejects: an empty file and non-numeric text.
InvalidCheckpoints == {<<>>, <<"x">>, <<"1", ".", "5">>}

\* Results left by earlier runs.
InitialResults == {<<>>, str(Pow(PyInt(16))) \o <<NL>>}

NoLocals ==
    /\ str_current_position = <<>>
    /\ int_current_position = PyInt(0)
    /\ int_full_number = PyInt(0)
    /\ str_full_number = <<>>
    /\ num_to_write = PyInt(0)

NoHistory ==
    /\ tested = <<>>
    /\ ckpt_log = <<>>
    /\ start = Files
    /\ iter = Files
    /\ killed_exp = <<>>
    /\ run_iters = 0
    /\ crashes = 0
    /\ killed_at = ""
    /\ ckpt_held = <<>>

\* The frame of an instance of main: its position, its locals and the unflushed
\* text of its file objects.
Frame(at) ==
    [pc |-> at,
     str_current_position |-> <<>>, int_current_position |-> PyInt(0),
     int_full_number |-> PyInt(0), str_full_number |-> <<>>,
     num_to_write |-> PyInt(0), file_in |-> <<>>, file_out |-> <<>>]

\* No second instance has been started.
NoInstance == Frame("absent")

\* python calc.py on files set up from outside (lines 37-38): main is about to
\* execute its first statement.
InitWith(checkpoints) ==
    /\ in_exists \in BOOLEAN
    /\ in_file \in IF in_exists THEN checkpoints ELSE {<<>>}
    /\ out_exists \in BOOLEAN
    /\ out_file \in IF out_exists THEN InitialResults ELSE {<<>>}
    /\ pc = "find_position"
    /\ NoLocals
    /\ file_in = <<>>
    /\ file_out = <<>>
    /\ stdout = <<>>
    /\ NoHistory
    /\ horizon = MaxExp
    /\ other = NoInstance

Init ==
    InitWith(ValidCheckpoints(MaxStart - StartWindow, MaxStart)
             \cup InvalidCheckpoints)

InitRun ==
    InitWith(ValidCheckpoints(0 - NegStarts, MaxStart) \cup InvalidCheckpoints)

(***************************************************************************)
(* main, one action per statement.                                         *)
(***************************************************************************)
\* Faulty variant: find_position opens the file with "a+", which creates a missing file.
FindPosition_Creates ==
    /\ pc = "find_position"
    /\ in_exists' = TRUE
    /\ str_current_position' = in_file
    /\ pc' = "int"
    /\ UNCHANGED <<in_file, out_exists, out_file, int_current_position,
                   int_full_number, str_full_number, num_to_write, handles,
                   stdout, history, scope>>

\* Line 3 and find_position (lines 15-19): open(in_file, "r") raises
\* FileNotFoundError when the file is missing; otherwise the whole text is read.
FindPosition ==
    /\ pc = "find_position"
    /\ IF in_exists
       THEN /\ str_current_position' = in_file
            /\ pc' = "int"
       ELSE /\ pc' = "fault"
            /\ UNCHANGED str_current_position
    /\ UNCHANGED <<files, int_current_position, int_full_number, str_full_number,
                   num_to_write, handles, stdout, history, scope>>

\* Line 4: int(str_current_position); a ValueError is not caught.
ParseInt ==
    /\ pc = "int"
    /\ IF int(str_current_position).ok
       THEN /\ int_current_position' = int(str_current_position).val
            /\ pc' = "print"
       ELSE /\ pc' = "fault"
            /\ UNCHANGED int_current_position
    /\ UNCHANGED <<files, str_current_position, int_full_number, str_full_number,
                   num_to_write, handles, stdout, history, scope>>

\* Lines 5-6: the progress marker.
PrintProgress ==
    /\ pc = "print"
    /\ stdout' = IF IsMultiple(int_current_position, ProgressInterval)
                 THEN Append(stdout, int_current_position)
                 ELSE stdout
    /\ pc' = "pow"
    /\ UNCHANGED <<files, locals, handles, history, scope>>

\* Lines 7-8: 2 ** int_current_position and its decimal string.  The model
\* follows the loop up to the exponent horizon.
Compute ==
    /\ pc = "pow"
    /\ Val(int_current_position) <= horizon
    /\ int_full_number' = Pow(int_current_position)
    /\ str_full_number' = str(Pow(int_current_position))
    /\ pc' = "test"
    /\ UNCHANGED <<files, str_current_position, int_current_position,
                   num_to_write, handles, stdout, history, scope>>

\* Faulty variant: the result is never appended.
AfterTest_NeverAppend(qualifies) == "increment_call"

\* Where main goes after the test of line 10.
AfterTest(qualifies) == IF qualifies THEN "append_open" ELSE "increment_call"

\* Lines 9-10: the digit test.
Test ==
    /\ pc = "test"
    /\ tested' = Append(tested, Val(int_current_position))
    /\ pc' = AfterTest(NoForbiddenDigit(str_full_number))
    /\ UNCHANGED <<files, locals, handles, stdout, ckpt_log, start, iter,
                   killed_exp, run_iters, crashes, killed_at, ckpt_held, scope>>

\* Line 11, append_if_answer_found line 23: open(out_file, "a") creates the
\* file when it is missing and keeps what it holds.
AppendOpen ==
    /\ pc = "append_open"
    /\ out_exists' = TRUE
    /\ file_out' = <<>>
    /\ pc' = "append_write"
    /\ UNCHANGED <<in_exists, in_file, out_file, locals, file_in, stdout, history, scope>>

\* Faulty variant: the text is never written.
Written_Dropped(buffer, text) == buffer

\* file.write(text): the text joins what the file object has not flushed yet.
Written(buffer, text) == buffer \o text

\* Line 24: file_out.write(str(full_number)).
AppendWrite ==
    /\ pc = "append_write"
    /\ file_out' = Written(file_out, str(int_full_number))
    /\ pc' = "append_newline"
    /\ UNCHANGED <<files, locals, file_in, stdout, history, scope>>

\* Line 25: file_out.write("\n").
AppendNewline ==
    /\ pc = "append_newline"
    /\ file_out' = Written(file_out, <<NL>>)
    /\ pc' = "append_close"
    /\ UNCHANGED <<files, locals, file_in, stdout, history, scope>>

\* Faulty variant: the results file is opened with "w" and loses what it held.
AppendedTo_Overwrite(old, text) == text

\* Faulty variant: a record the file already holds is not appended again.
AppendedTo_Once(old, text) ==
    IF \E i \in 1..Len(old) :
           i + Len(text) - 1 <= Len(old) /\ SubSeq(old, i, i + Len(text) - 1) = text
    THEN old
    ELSE old \o text

\* What close() leaves in a file opened for appending.
AppendedTo(old, text) == old \o text

\* Line 26: file_out.close() flushes the text to the end of the file.
AppendClose ==
    /\ pc = "append_close"
    /\ out_file' = AppendedTo(out_file, file_out)
    /\ file_out' = <<>>
    /\ pc' = "increment_call"
    /\ UNCHANGED <<in_exists, in_file, out_exists, locals, file_in, stdout, history, scope>>

\* Faulty variants: the checkpoint advances by two, or not at all.
NextPosition_Skip(v) == AddOne(AddOne(v))

NextPosition_Stay(v) == v

\* The argument of the call of line 12.
NextPosition(v) == AddOne(v)

\* Line 12: increment_in_file(in_file, int_current_position + 1).
IncrementCall ==
    /\ pc = "increment_call"
    /\ num_to_write' = NextPosition(int_current_position)
    /\ pc' = "increment_open"
    /\ UNCHANGED <<files, str_current_position, int_current_position,
                   int_full_number, str_full_number, handles, stdout, history, scope>>

\* Faulty variant: the checkpoint file is opened with "r+" and keeps what it held.
OpenedForWriting_Keep(old) == old

\* What open(in_file, 'w') leaves of the old contents: nothing.
OpenedForWriting(old) == <<>>

\* increment_in_file line 31: open(in_file, 'w') creates or truncates the file.
IncrementOpen ==
    /\ pc = "increment_open"
    /\ in_exists' = TRUE
    /\ in_file' = OpenedForWriting(in_file)
    /\ file_in' = <<>>
    /\ pc' = "increment_write"
    /\ UNCHANGED <<out_exists, out_file, locals, file_out, stdout, history, scope>>

\* Line 32: file_in.write(str(num_to_write)).
IncrementWrite ==
    /\ pc = "increment_write"
    /\ file_in' = Written(file_in, str(num_to_write))
    /\ pc' = "increment_close"
    /\ UNCHANGED <<files, locals, file_out, stdout, history, scope>>

\* What the flush of a file object opened with 'w' leaves in the file: the text
\* goes to the start of the file, over what the file holds there.  That is
\* nothing after the truncation of the open, unless another writer has written
\* to the file since.
WrittenAtStart(old, text) == text \o SubSeq(old, Len(text) + 1, Len(old))

\* Line 33: file_in.close() flushes the text; the loop starts its next iteration.
IncrementClose ==
    /\ pc = "increment_close"
    /\ in_file' = WrittenAtStart(in_file, file_in)
    /\ file_in' = <<>>
    /\ ckpt_log' = Append(ckpt_log, file_in)
    /\ ckpt_held' = Append(ckpt_held, WrittenAtStart(in_file, file_in))
    /\ iter' = [Files EXCEPT !.in_file = WrittenAtStart(in_file, file_in)]
    /\ run_iters' = run_iters + 1
    /\ pc' = "find_position"
    /\ UNCHANGED <<in_exists, out_exists, out_file, locals, file_out, stdout,
                   tested, start, killed_exp, crashes, killed_at, scope>>

MainStep ==
    \/ FindPosition
    \/ ParseInt
    \/ PrintProgress
    \/ Compute
    \/ Test
    \/ AppendOpen
    \/ AppendWrite
    \/ AppendNewline
    \/ AppendClose
    \/ IncrementCall
    \/ IncrementOpen
    \/ IncrementWrite
    \/ IncrementClose

(***************************************************************************)
(* The environment: the process is killed and started again.               *)
(***************************************************************************)
Running == pc \notin {"fault", "killed"}

\* The exponent of the iteration in progress, as <<n>>, or <<>> when the
\* iteration has no exponent (the checkpoint cannot be read).
CurrentExp ==
    IF pc = "find_position"
    THEN IF in_exists /\ int(in_file).ok THEN <<Val(int(in_file).val)>> ELSE <<>>
    ELSE IF pc = "int"
    THEN IF int(str_current_position).ok
         THEN <<Val(int(str_current_position).val)>> ELSE <<>>
    ELSE <<Val(int_current_position)>>

\* The process is stopped from outside between two statements.  Text written to
\* a file object that is still open reaches the file when the interpreter
\* unwinds (KeyboardInterrupt: the file object is finalised and flushed) and is
\* lost when the process is killed outright (SIGKILL).
Kill ==
    /\ Running
    /\ crashes < MaxCrashes
    /\ \E flushed \in BOOLEAN :
          /\ in_file' = IF flushed THEN WrittenAtStart(in_file, file_in) ELSE in_file
          /\ out_file' = IF flushed THEN AppendedTo(out_file, file_out) ELSE out_file
    /\ file_in' = <<>>
    /\ file_out' = <<>>
    /\ killed_exp' = CurrentExp
    /\ killed_at' = pc
    /\ crashes' = crashes + 1
    /\ pc' = "killed"
    /\ UNCHANGED <<in_exists, out_exists, locals, stdout, tested, ckpt_log,
                   start, iter, run_iters, ckpt_held, scope>>

\* Lines 37-38: main is started again on the same files.
Restart ==
    /\ ~Running
    /\ pc' = "find_position"
    /\ str_current_position' = <<>>
    /\ int_current_position' = PyInt(0)
    /\ int_full_number' = PyInt(0)
    /\ str_full_number' = <<>>
    /\ num_to_write' = PyInt(0)
    /\ iter' = Files
    /\ run_iters' = 0
    /\ killed_at' = ""
    /\ UNCHANGED <<files, handles, stdout, tested, ckpt_log, start, killed_exp,
                   crashes, ckpt_held, scope>>

Next == MainStep \/ Kill \/ Restart

\* The values and the earlier file contents of the checkpoint round trip.
\* 2^64 = 18446744073709551616, the first value beyond a 64-bit word.
TwoTo64 == <<1, 8, 4, 4, 6, 7, 4, 4, 0, 7, 3, 7, 0, 9, 5, 5, 1, 6, 1, 6>>

RECURSIVE BigMag(_)
BigMag(e) == IF e = 0 THEN TwoTo64 ELSE MulMag(BigMag(e - 1), Base)

RoundTripValues ==
    LET small == {PyInt(n) : n \in 0..MaxSmall}
        big   == {[neg |-> FALSE, mag |-> BigMag(e), scale |-> 0] : e \in 0..MaxBig}
    IN  small \cup big \cup {AddOne(v) : v \in big}

PreviousContents ==
    {<<>>, <<"x">>, <<"9", "9", "9">>, MagStr(BigMag(MaxBig)) \o <<"7", NL>>}

\* increment_in_file is about to run on a value and a file of any contents.
InitRT ==
    /\ in_exists \in BOOLEAN
    /\ in_file \in IF in_exists THEN PreviousContents ELSE {<<>>}
    /\ out_exists = FALSE
    /\ out_file = <<>>
    /\ pc = "increment_open"
    /\ str_current_position = <<>>
    /\ int_current_position = PyInt(0)
    /\ int_full_number = PyInt(0)
    /\ str_full_number = <<>>
    /\ num_to_write \in RoundTripValues
    /\ file_in = <<>>
    /\ file_out = <<>>
    /\ stdout = <<>>
    /\ NoHistory
    /\ horizon = MaxExp
    /\ other = NoInstance

\* increment_in_file(f, k) followed by int(find_position(f)).
RoundTrip ==
    \/ IncrementOpen
    \/ IncrementWrite
    \/ IncrementClose
    \/ FindPosition
    \/ ParseInt

SpecRT == InitRT /\ [][RoundTrip]_vars

(***************************************************************************)
(* Two instances of main on the same two files.  The variables of main     *)
(* hold the frame of the instance that executes the next statement, other  *)
(* holds the frame of the instance that waits; the scheduler exchanges     *)
(* them between any two statements.                                        *)
(***************************************************************************)
ThisFrame ==
    [pc |-> pc,
     str_current_position |-> str_current_position,
     int_current_position |-> int_current_position,
     int_full_number |-> int_full_number, str_full_number |-> str_full_number,
     num_to_write |-> num_to_write, file_in |-> file_in, file_out |-> file_out]

\* python calc.py is started twice on the same in.txt and out.txt (lines 37-38).
InitTwo ==
    /\ in_exists = TRUE
    /\ in_file \in {str(PyInt(n)) : n \in (MaxStart - TwoWindow)..MaxStart}
    /\ out_exists \in BOOLEAN
    /\ out_file = <<>>
    /\ pc = "find_position"
    /\ NoLocals
    /\ file_in = <<>>
    /\ file_out = <<>>
    /\ stdout = <<>>
    /\ NoHistory
    /\ horizon = Val(int(in_file).val) + TwoSpan
    /\ other = Frame("find_position")

\* The operating system runs the other instance.
Switch ==
    /\ other.pc # "absent"
    /\ pc' = other.pc
    /\ str_current_position' = other.str_current_position
    /\ int_current_position' = other.int_current_position
    /\ int_full_number' = other.int_full_number
    /\ str_full_number' = other.str_full_number
    /\ num_to_write' = other.num_to_write
    /\ file_in' = other.file_in
    /\ file_out' = other.file_out
    /\ other' = ThisFrame
    /\ UNCHANGED <<files, stdout, history, horizon>>

NextTwo == MainStep \/ Switch

\* Two instances, interleaved statement by statement.
SpecTwo == InitTwo /\ [][NextTwo]_vars

\* One instance on an existing, empty results file, followed up to the exponent
\* MaxMark: from 0 and from the negative checkpoints (a thousand exponents and
\* more), and from just below MaxMark.
InitMark ==
    /\ in_exists = TRUE
    /\ in_file \in {str(PyInt(n)) : n \in (0 - NegStarts)..0 \cup {MaxMark - 2}}
    /\ out_exists = TRUE
    /\ out_file = <<>>
    /\ pc = "find_position"
    /\ NoLocals
    /\ file_in = <<>>
    /\ file_out = <<>>
    /\ stdout = <<>>
    /\ NoHistory
    /\ horizon = MaxMark
    /\ other = NoInstance

\* Uninterrupted runs of a thousand iterations and more.
SpecMark == InitMark /\ [][MainStep]_vars

\* Runs that may be killed and restarted.
Spec == Init /\ [][Next]_vars

\* Uninterrupted runs.
SpecRun == InitRun /\ [][MainStep]_vars

\* Uninterrupted runs of a process that is scheduled as long as it can step.
SpecLive == InitRun /\ [][MainStep]_vars /\ WF_vars(MainStep)


(***************************************************************************)
(* Reference definitions for the properties, in native integer arithmetic  *)
(* (the exponents of the model keep 2^n far below the native width).       *)
(***************************************************************************)
RECURSIVE RefDigits(_)
RefDigits(n) == IF n < 10 THEN {n} ELSE {n % 10} \cup RefDigits(n \div 10)

RECURSIVE RefStr(_)
RefStr(n) ==
    IF n < 10 THEN <<DigitChars[n + 1]>>
    ELSE Append(RefStr(n \div 10), DigitChars[(n % 10) + 1])

\* 2^k has none of the digits 1, 2, 4, 8 (k >= 0).
RefQualifies(k) == RefDigits(2^k) \cap {1, 2, 4, 8} = {}

\* The line main appends for the exponent k >= 0.
RefRecord(k) == Append(RefStr(2^k), NL)

\* The record r stands in the file f: its text followed by its line terminator.
HasRecord(f, r) ==
    \E i \in 1..Len(f) :
        i + Len(r) - 1 <= Len(f) /\ SubSeq(f, i, i + Len(r) - 1) = r

\* How many times the record r stands in the file f.
Occurrences(f, r) ==
    Cardinality({i \in 1..Len(f) :
        i + Len(r) - 1 <= Len(f) /\ SubSeq(f, i, i + Len(r) - 1) = r})

Range(q) == {q[i] : i \in 1..Len(q)}

\* The first run started from a checkpoint file holding a non-negative integer.
StartValid ==
    start.in_exists /\ int(start.in_file).ok /\ ~int(start.in_file).val.neg

\* The exponent the first run started from.
StartExp == Val(int(start.in_file).val)

\* The checkpoint file holds an integer, and which.
CheckpointValid == in_exists /\ int(in_file).ok

CheckpointExp == Val(int(in_file).val)

(***************************************************************************)
(* C1.  Checkpoint invariant.  From a valid start c0, whenever the         *)
(* checkpoint file holds a valid integer c, every exponent k with          *)
(* c0 <= k < c has been tested, and when 2^k has no digit in {1,2,4,8} the *)
(* decimal string of 2^k is already in the results file.  Checked for runs *)
(* that are killed and restarted; "in the results file" is read as: the    *)
(* text of 2^k followed by its line terminator stands in the file.         *)
(***************************************************************************)
C1_CheckpointInvariant ==
    (StartValid /\ CheckpointValid) =>
        \A k \in StartExp..(CheckpointExp - 1) :
            /\ k \in Range(tested)
            /\ RefQualifies(k) => HasRecord(out_file, RefRecord(k))

\* A killed and restarted run has passed the qualifying exponent 16, starting
\* with an empty results file.
C1_Witness ==
    /\ StartValid
    /\ start.out_file = <<>>
    /\ crashes > 0
    /\ CheckpointValid
    /\ StartExp <= 16
    /\ CheckpointExp = 17
    /\ HasRecord(out_file, RefRecord(16))

(***************************************************************************)
(* C2.  Crash/resume, as claimed: when the process is killed at any point  *)
(* of the iteration testing n and main is restarted on the same files, the *)
(* restarted run begins at exponent n or n+1; at most one exponent per     *)
(* kill is tested a second time and no exponent is skipped.                *)
(***************************************************************************)
\* Number of places where the same exponent is tested twice in a row.
Retests == Cardinality({i \in 1..(Len(tested) - 1) : tested[i + 1] = tested[i]})

C2_CrashResume ==
    /\ (crashes > 0 /\ killed_exp # <<>> /\ run_iters = 0 /\ pc # "killed") =>
          /\ pc # "fault"
          /\ CurrentExp # <<>>
          /\ CurrentExp[1] \in {killed_exp[1], killed_exp[1] + 1}
    /\ \A i \in 1..(Len(tested) - 1) : tested[i + 1] \in {tested[i], tested[i] + 1}
    /\ Retests <= crashes

\* The part of C2 the code keeps: the order of the tests (used to see that only
\* the first conjunct of C2_CrashResume fails).
C2_TestOrder ==
    /\ \A i \in 1..(Len(tested) - 1) : tested[i + 1] \in {tested[i], tested[i] + 1}
    /\ Retests <= crashes

(***************************************************************************)
(* C3.  No duplicate result on resume, as claimed: whatever the kills and  *)
(* restarts, the results file (empty at the start) holds the value of each *)
(* qualifying exponent below the checkpoint exactly once, and no value     *)
(* twice.                                                                  *)
(***************************************************************************)
C3_NoDuplicateOnResume ==
    (StartValid /\ start.out_file = <<>>) =>
        \A k \in StartExp..MaxExp :
            /\ Occurrences(out_file, RefRecord(k)) <= 1
            /\ (CheckpointValid /\ k < CheckpointExp /\ RefQualifies(k)) =>
                   Occurrences(out_file, RefRecord(k)) = 1

(***************************************************************************)
(* C4.  Predicate correctness.  For every exponent n >= 0 of the bounded   *)
(* range, one iteration of main with checkpoint n appends the decimal      *)
(* string of 2^n (and its line terminator) to the results file if and only *)
(* if 2^n has none of the digits 1, 2, 4, 8, and appends nothing otherwise;*)
(* nothing is appended for n = 0, 5, 9 and 15.  2^n and its digits are     *)
(* those of the reference definitions, not of the model's arithmetic.      *)
(***************************************************************************)
C4_PredicateCorrectness ==
    (pc = "increment_call" /\ ~int_current_position.neg) =>
        LET n == Val(int_current_position)
        IN  /\ out_file = IF RefQualifies(n)
                          THEN iter.out_file \o RefRecord(n)
                          ELSE iter.out_file
            /\ n \in {0, 5, 9, 15} => out_file = iter.out_file

\* The iteration of exponent 16 has appended 65536.
C4_Witness ==
    /\ pc = "increment_call"
    /\ int_current_position = PyInt(16)
    /\ out_file = iter.out_file \o RefRecord(16)

(***************************************************************************)
(* C5.  Scan order.  In an uninterrupted run started with checkpoint c0    *)
(* the exponents tested are c0, c0+1, c0+2, ... in that order, every       *)
(* completed iteration has written the checkpoint once, with n+1, and the  *)
(* first record appended to an initially empty results file is 2^n for the *)
(* least n >= c0 >= 0 whose 2^n has no forbidden digit.                    *)
(***************************************************************************)
RefIntStr(n) == IF n < 0 THEN <<"-">> \o RefStr(-n) ELSE RefStr(n)

\* The first run started from a checkpoint file holding an integer.
StartReadable == start.in_exists /\ int(start.in_file).ok

\* The text of f before its first line terminator.
FirstLine(f) ==
    LET ends == {i \in 1..Len(f) : f[i] = NL}
    IN  IF ends = {} THEN f
        ELSE SubSeq(f, 1, (CHOOSE i \in ends : \A j \in ends : i <= j) - 1)

LeastQualifying(c0) ==
    CHOOSE n \in c0..(MaxExp + 1) :
        RefQualifies(n) /\ \A m \in c0..(n - 1) : ~RefQualifies(m)

C5_ScanOrder ==
    StartReadable =>
        /\ \A i \in 1..Len(tested) : tested[i] = StartExp + i - 1
        /\ \A i \in 1..Len(ckpt_log) : ckpt_log[i] = RefIntStr(StartExp + i)
        /\ Len(tested) \in {Len(ckpt_log), Len(ckpt_log) + 1}
        /\ pc = "find_position" => Len(ckpt_log) = Len(tested)
        /\ (StartValid /\ start.out_file = <<>> /\ out_file # <<>>) =>
               FirstLine(out_file) = RefStr(2 ^ LeastQualifying(StartExp))

\* The run from 0 has completed the iteration of 16, the first exponent to qualify.
C5_Witness ==
    /\ StartValid
    /\ StartExp = 0
    /\ start.out_file = <<>>
    /\ pc = "find_position"
    /\ tested = <<0, 1, 2, 3, 4, 5, 6, 7, 8, 9, 10, 11, 12, 13, 14, 15, 16>>
    /\ out_file = RefRecord(16)

(***************************************************************************)
(* C7.  Result order.  In an uninterrupted run the records the run has     *)
(* appended to the results file are in strictly increasing exponent order: *)
(* every line is the decimal string of 2^m for an m above the exponent of  *)
(* every earlier line.                                                     *)
(***************************************************************************)
IsPrefix(f, g) == Len(f) <= Len(g) /\ SubSeq(g, 1, Len(f)) = f

RECURSIVE Lines(_)
Lines(f) ==
    IF f = <<>> THEN <<>>
    ELSE <<FirstLine(f)>> \o Lines(SubSeq(f, Len(FirstLine(f)) + 2, Len(f)))

RECURSIVE RefPad(_, _)
RefPad(t, width) == IF Len(t) >= width THEN t ELSE RefPad(<<"0">> \o t, width)

\* The decimal string of 2^e; for e < 0 that of the float 5^-e / 10^-e.
RefPowStr(e) ==
    IF e >= 0 THEN RefStr(2 ^ e)
    ELSE <<"0", ".">> \o RefPad(RefStr(5 ^ (0 - e)), 0 - e)

ExpsOf(line) == {e \in (0 - NegStarts - 1)..(MaxExp + 1) : RefPowStr(e) = line}

\* What the runs have added to the results file.
NewRecords == SubSeq(out_file, Len(start.out_file) + 1, Len(out_file))

C7_ResultOrder ==
    /\ IsPrefix(start.out_file, out_file)
    /\ LET ls == Lines(NewRecords)
       IN  \A j \in 1..Len(ls) :
              /\ ExpsOf(ls[j]) # {}
              /\ \A i \in 1..(j - 1) :
                    \A a \in ExpsOf(ls[i]), b \in ExpsOf(ls[j]) : a < b

\* One run has appended two records (2^-1 = 0.5, then 2^16 = 65536).
C7_Witness == Len(Lines(NewRecords)) = 2

(***************************************************************************)
(* C6.  Checkpoint round trip.  For every non-negative integer k, values   *)
(* above 2^64 included, increment_in_file(f, k) followed by                *)
(* int(find_position(f)) yields exactly k, whatever f held before.         *)
(***************************************************************************)
C6_RoundTrip ==
    /\ pc # "fault"
    /\ pc = "print" => int_current_position = num_to_write

\* A value above 2^64 (20 digits or more) has come back from a file that held
\* other text before.
C6_Witness ==
    /\ pc = "print"
    /\ int_current_position = num_to_write
    /\ Len(num_to_write.mag) >= 20
    /\ start.in_file # <<>>

(***************************************************************************)
(* C8.  Fatal checkpoint errors.  When at the start of an iteration the    *)
(* checkpoint file is missing, empty or holds non-numeric text, the        *)
(* iteration ends in an unhandled fault and changes neither file: nothing  *)
(* is appended, the checkpoint is not rewritten, a missing checkpoint file *)
(* is not created.                                                         *)
(***************************************************************************)
NumericChars == Range(DigitChars) \cup {"-", "+"} \cup Whitespace

BadCheckpoint(f) ==
    \/ ~f.in_exists
    \/ f.in_file = <<>>
    \/ \E i \in 1..Len(f.in_file) : f.in_file[i] \notin NumericChars

C8_FatalCheckpoint ==
    BadCheckpoint(iter) =>
        /\ Files = iter
        /\ pc \in {"find_position", "int", "fault", "killed"}
        /\ ~iter.in_exists => pc # "int"

\* The process has died on a checkpoint file holding "x".
C8_Witness ==
    /\ pc = "fault"
    /\ iter.in_exists
    /\ iter.in_file = <<"x">>
    /\ Files = iter

(***************************************************************************)
(* C9.  Results are append-only.  Across iterations, kills and restarts    *)
(* every step leaves the earlier contents of the results file as a prefix  *)
(* of the later contents (and never removes the file), and an iteration    *)
(* whose exponent fails the predicate ends with the results file as it was *)
(* when the iteration started.                                             *)
(***************************************************************************)
C9_Step ==
    /\ IsPrefix(out_file, out_file')
    /\ out_exists => out_exists'
    /\ (/\ pc = "increment_close"
        /\ pc' = "find_position"
        /\ ~int_current_position.neg
        /\ ~RefQualifies(Val(int_current_position))) =>
           /\ out_file' = iter.out_file
           /\ out_exists' = iter.out_exists

C9_AppendOnly == [][C9_Step]_vars

\* A killed and restarted run has added to a results file that was not empty.
C9_Witness ==
    /\ start.out_file # <<>>
    /\ crashes > 0
    /\ Len(out_file) > Len(start.out_file)

(***************************************************************************)
(* C10.  No terminal state.  Started from a valid checkpoint c0 and left   *)
(* alone, the driver loop never stops (it raises no fault and always has a *)
(* next statement, up to the bound of the model), and under weak fairness  *)
(* the checkpoint eventually exceeds every exponent of the model (MaxExp). *)
(***************************************************************************)
\* The model stops following the loop here.
AtCap == pc = "pow" /\ Val(int_current_position) > MaxExp

C10_NeverStops ==
    StartValid => /\ pc \notin {"fault", "killed"}
                  /\ (ENABLED MainStep) \/ AtCap

\* The checkpoint never decreases in these runs, so exceeding MaxExp is
\* exceeding every exponent of the model.
C10_NoTerminalState ==
    /\ []C10_NeverStops
    /\ <>(StartValid => (CheckpointValid /\ CheckpointExp > MaxExp))

\* The run from 0 has written the checkpoint MaxExp + 1.
C10_Witness ==
    /\ StartValid
    /\ StartExp = 0
    /\ CheckpointValid
    /\ CheckpointExp = MaxExp + 1

(***************************************************************************)
(* C11.  Checkpoint stays valid across crashes, as claimed: when the       *)
(* process is killed inside increment_in_file while it rewrites the        *)
(* checkpoint from n to n+1 (before the open, between the open and the     *)
(* write, or between the write and the close), the checkpoint file         *)
(* afterwards holds a decimal integer, and that integer is n or n+1.       *)
(***************************************************************************)
InIncrement == {"increment_open", "increment_write", "increment_close"}

C11_CheckpointValidAcrossCrash ==
    (pc = "killed" /\ killed_at \in InIncrement) =>
        /\ CheckpointValid
        /\ CheckpointExp \in {killed_exp[1], killed_exp[1] + 1}

\* The part of C11 the code keeps: a kill before open(in_file, 'w') leaves n,
\* and a kill whose interrupt flushes the written text leaves n+1.
C11_OutsideTruncation ==
    (pc = "killed" /\ killed_at \in InIncrement /\ in_file # <<>>) =>
        /\ CheckpointValid
        /\ CheckpointExp \in {killed_exp[1], killed_exp[1] + 1}

(***************************************************************************)
(* C12.  Result records are well-formed, as claimed: whatever integer the  *)
(* checkpoint file holds at the start, a negative one such as -1 included, *)
(* every line the run appends to the results file is the decimal string of *)
(* 2^n for an n >= 0 whose 2^n has none of the digits 1, 2, 4, 8.          *)
(***************************************************************************)
WellFormedRecord(line) ==
    \E n \in 0..(MaxExp + 1) : line = RefStr(2 ^ n) /\ RefQualifies(n)

C12_WellFormedRecords ==
    StartReadable =>
        \A j \in 1..Len(Lines(NewRecords)) : WellFormedRecord(Lines(NewRecords)[j])

\* The part of C12 the code keeps: the records of the runs that start from a
\* non-negative checkpoint.
C12_FromNonNegative ==
    StartValid =>
        \A j \in 1..Len(Lines(NewRecords)) : WellFormedRecord(Lines(NewRecords)[j])

(***************************************************************************)
(* C13.  Two instances produce duplicates.  When two instances of main run *)
(* on the same files, neither looks at what the other has done: every test *)
(* of a qualifying exponent, by either instance, adds its line to the      *)
(* results file whether or not the file holds that line already, and every *)
(* checkpoint write an instance completes leaves that instance's own n+1   *)
(* at the start of the checkpoint file, whatever the file held before.     *)
(* Hence a state is reached where the results file holds the same value on *)
(* two lines, and one where the checkpoint is lower than a value it held   *)
(* earlier (C13_Witness is a state where both have happened).              *)
(***************************************************************************)
Appending == {"append_open", "append_write", "append_newline", "append_close"}

\* How many of the two instances are inside append_if_answer_found for 2^k.
InFlight(k) ==
    Cardinality({f \in {<<1, ThisFrame>>, <<2, other>>} :
        f[2].pc \in Appending /\ f[2].int_current_position = PyInt(k)})

\* How many times the exponent k has been tested.
TimesTested(k) == Cardinality({i \in 1..Len(tested) : tested[i] = k})

C13_EveryTestAppends ==
    \A k \in StartExp..horizon :
        RefQualifies(k) =>
            Occurrences(out_file, RefRecord(k)) = TimesTested(k) - InFlight(k)

\* A step that closes the checkpoint file (the only step that adds to ckpt_log).
C13_WriteStep ==
    (pc = "increment_close" /\ ckpt_log' # ckpt_log) =>
        IsPrefix(RefIntStr(Val(int_current_position) + 1), in_file')

C13_TwoInstancesDuplicate == []C13_EveryTestAppends /\ [][C13_WriteStep]_vars

\* The checkpoint file holds an integer below one it held after an earlier close.
Regressed ==
    /\ CheckpointValid
    /\ \E j \in 1..Len(ckpt_held) :
           /\ int(ckpt_held[j]).ok
           /\ Val(int(ckpt_held[j]).val) > CheckpointExp

\* 65536 stands on two lines of the results file, and the checkpoint has gone
\* back from 18 to 17.
C13_Witness ==
    /\ other.pc # "absent"
    /\ start.out_file = <<>>
    /\ Occurrences(out_file, RefRecord(16)) >= 2
    /\ Regressed

(***************************************************************************)
(* C14.  Two instances produce missing results.  When two instances of     *)
(* main run on the same files a state is reached where the checkpoint file *)
(* holds a value c above a qualifying exponent k >= c0 while the decimal   *)
(* string of 2^k is absent from the results file (C14_Witness).  This      *)
(* happens only through a torn checkpoint, a text in the file that no      *)
(* instance wrote (one instance's shorter text over the other's longer     *)
(* one): as long as every close has left the text its instance wrote,      *)
(* every exponent from c0 up to the checkpoint has been tested and the     *)
(* value of every qualifying one stands in the results file.               *)
(***************************************************************************)
\* Some close of increment_in_file has left a text other than the one written.
Torn == \E j \in 1..Len(ckpt_held) : ckpt_held[j] # ckpt_log[j]

C14_MissingOnlyWhenTorn ==
    (CheckpointValid /\ ~Torn) =>
        \A k \in StartExp..(CheckpointExp - 1) :
            /\ k \in Range(tested)
            /\ RefQualifies(k) => HasRecord(out_file, RefRecord(k))

\* From the checkpoint 8 the file has come to hold 90: neither instance has
\* tested 16 and 65536 is not in the results file.
C14_Witness ==
    /\ other.pc # "absent"
    /\ CheckpointValid
    /\ StartExp <= 16
    /\ CheckpointExp > 16
    /\ RefQualifies(16)
    /\ ~HasRecord(out_file, RefRecord(16))
    /\ 16 \notin Range(tested)

(***************************************************************************)
(* C15.  Progress marker.  An iteration of main prints its exponent n to   *)
(* standard output if and only if n is a multiple of 1000, and the print   *)
(* step changes neither the checkpoint file nor the results file; so in an *)
(* uninterrupted run the markers are in increasing order and, of any 1000  *)
(* consecutive exponents the run has tested, exactly one has a marker.     *)
(***************************************************************************)
RefMarker(n) == n % 1000 = 0

C15_PrintStep ==
    pc = "print" =>
        /\ stdout' = IF RefMarker(Val(int_current_position))
                      THEN Append(stdout, int_current_position)
                      ELSE stdout
        /\ in_exists' = in_exists /\ in_file' = in_file
        /\ out_exists' = out_exists /\ out_file' = out_file

\* The markers whose exponent is one of lo..hi.
MarkersIn(lo, hi) ==
    {j \in 1..Len(stdout) : Val(stdout[j]) >= lo /\ Val(stdout[j]) <= hi}

C15_OnePerThousand ==
    /\ \A j \in 1..(Len(stdout) - 1) : Val(stdout[j]) < Val(stdout[j + 1])
    /\ \A j \in 1..Len(stdout) : RefMarker(Val(stdout[j]))
    /\ \A i \in 1..(Len(tested) - 999) :
           /\ tested[i + 999] = tested[i] + 999
           /\ Cardinality(MarkersIn(tested[i], tested[i] + 999)) = 1

C15_ProgressMarker == []C15_OnePerThousand /\ [][C15_PrintStep]_vars

\* The run from 999 has tested 999, which printed nothing, and 1000, which
\* printed 1000; neither iteration qualified and the results file is still empty.
C15_Witness ==
    /\ tested = <<999, 1000>>
    /\ stdout = <<PyInt(1000)>>
    /\ out_file = <<>>

=============================================================================
